---- MODULE Spec2Model ----
(***************************************************************************)
(* Model of the Open Telekom Cloud SWR replication adapter                 *)
(* (src/pkg/reg/adapter/opentelekomcloud/adapter.go): ListNamespaces,      *)
(* GetNamespace and PrepareForPush, run against a remote registry that     *)
(* answers the three HTTP endpoints the adapter calls.                     *)
(*                                                                         *)
(* Strings are sequences of one-character strings, so that splitting,      *)
(* space removal and pattern matching are computed as the code does.       *)
(***************************************************************************)
EXTENDS Integers, Sequences, FiniteSets, TLC

\* ------------------------------------------------------------------ bounds
MaxQueryLen == 2
MaxListLen == 2
MaxRes == 3

\* ------------------------------------------------------ input alphabets
\* Characters a query may hold: two letters, the pattern metacharacters "."
\* and "(", a space and a tab.
QueryChars == {"a", "b", ".", "(", " ", "\t"}

\* Names the remote list endpoint may report.
ListedNames == {<<"a">>, <<"b">>, <<"a", "b">>, <<"b", "a">>}

\* Repository names of the resources handed to PrepareForPush:
\* "a/x", "a/y", "b", "/x" and "".
RepoNames == {<<"a", "/", "x">>, <<"a", "/", "y">>, <<"b">>, <<"/", "x">>, <<>>}

\* Namespaces that can exist in the remote registry.
RemoteNames == {<<"a">>, <<"b">>}

SeqsUpTo(S, n) == UNION {[1..k -> S] : k \in 0..n}

\* ------------------------------------------------------------- strings
\* strings.Replace(s, " ", "", -1)
RECURSIVE ReplaceSpaces(_)
ReplaceSpaces(s) ==
    IF s = <<>> THEN <<>>
    ELSE IF Head(s) = " " THEN ReplaceSpaces(Tail(s))
    ELSE <<Head(s)>> \o ReplaceSpaces(Tail(s))

\* strings.Split(s, "/")[0]: the text before the first "/", the whole string
\* when there is none, "" when s is empty or begins with "/".
RECURSIVE FirstSegment(_)
FirstSegment(s) ==
    IF s = <<>> THEN <<>>
    ELSE IF Head(s) = "/" THEN <<>>
    ELSE <<Head(s)>> \o FirstSegment(Tail(s))

\* ------------------------------------------------------------- regexp
\* regexp.MatchString on the pattern syntax the inputs can form: literal
\* characters, "." (any character but newline), a postfix "*", and "(" which
\* opens a group. No input holds ")", so every "(" is a missing closing
\* parenthesis; a "*" with nothing to repeat is a syntax error as well.
PatternError(p) ==
    \/ \E k \in 1..Len(p) : p[k] = "("
    \/ \E k \in 1..Len(p) : p[k] = "*" /\ (k = 1 \/ p[k - 1] = "*")

RECURSIVE Atoms(_)
Atoms(p) ==
    IF p = <<>> THEN <<>>
    ELSE IF Len(p) >= 2 /\ p[2] = "*"
         THEN <<[ch |-> p[1], star |-> TRUE]>> \o Atoms(SubSeq(p, 3, Len(p)))
         ELSE <<[ch |-> p[1], star |-> FALSE]>> \o Atoms(Tail(p))

CharMatches(pc, c) == IF pc = "." THEN c # "\n" ELSE pc = c

RECURSIVE MatchHere(_, _)
MatchHere(atoms, s) ==
    IF atoms = <<>> THEN TRUE
    ELSE IF Head(atoms).star
         THEN \E k \in 0..Len(s) :
                 /\ \A j \in 1..k : CharMatches(Head(atoms).ch, s[j])
                 /\ MatchHere(Tail(atoms), SubSeq(s, k + 1, Len(s)))
         ELSE /\ s # <<>>
              /\ CharMatches(Head(atoms).ch, Head(s))
              /\ MatchHere(Tail(atoms), Tail(s))

\* A pattern compiler that drops an unbalanced "(" instead of rejecting it.
RECURSIVE DropParens(_)
DropParens(p) ==
    IF p = <<>> THEN <<>>
    ELSE IF Head(p) = "(" THEN DropParens(Tail(p))
    ELSE <<Head(p)>> \o DropParens(Tail(p))

MatchStringLenient(pattern, s) ==
    [b |-> \E k \in 0..Len(s) :
              MatchHere(Atoms(DropParens(pattern)), SubSeq(s, k + 1, Len(s))),
     err |-> FALSE]

\* regexp.MatchString(pattern, s): (matched, err); unanchored.
MatchString(pattern, s) ==
    IF PatternError(pattern) THEN [b |-> FALSE, err |-> TRUE]
    ELSE [b |-> \E k \in 0..Len(s) :
                   MatchHere(Atoms(pattern), SubSeq(s, k + 1, Len(s))),
          err |-> FALSE]

\* -------------------------------------------------------------- errors
\* A Go error value. fmt.Errorf("[%d][%s]", code, body) keeps the status code
\* and the body text, the two things its message is made of.
Nil == [kind |-> "nil", code |-> 0, body |-> ""]
TransportErr == [kind |-> "transport", code |-> 0, body |-> ""]
ReadErr == [kind |-> "read", code |-> 0, body |-> ""]
DecodeErr == [kind |-> "decode", code |-> 0, body |-> ""]
Errorf(code, body) == [kind |-> "status", code |-> code, body |-> body]

\* ------------------------------------------------------ namespace model
MetadataKeys ==
    {"id", "creator_name", "domain_public", "auth", "domain_name",
     "user_count", "image_count"}

\* otcNamespace as json.Unmarshal fills it: the replies of the model carry
\* the name and the id, every other field keeps Go's zero value.
OtcNamespace(name, id) == [Name |-> name, ID |-> id]

\* (ns otcNamespace) metadata()
metadata(ns) ==
    [k \in MetadataKeys |->
        IF k = "id" THEN ns.ID
        ELSE IF k \in {"creator_name", "domain_name"} THEN ""
        ELSE 0]

\* make(map[string]interface{})
EmptyMap == [k \in {} |-> 0]

\* &model.Namespace{Name: "", Metadata: make(map[string]interface{})}
UnsetNamespace == [Name |-> <<>>, Metadata |-> EmptyMap]

\* ------------------------------------------------------- HTTP replies
\* What client.Do hands back: a transport failure, or a status code and a
\* body. A body has its raw text (what an error message quotes), whether
\* io.ReadAll can read it, whether json.Unmarshal can decode it, and the
\* decoded value.
Body(text, readable, decodes, value) ==
    [text |-> text, readable |-> readable, decodes |-> decodes, value |-> value]
Http(code, body) == [transport |-> FALSE, code |-> code, body |-> body]
TransportFailure ==
    [transport |-> TRUE, code |-> 0, body |-> Body("", FALSE, FALSE, <<>>)]
TextBody(text) == Body(text, TRUE, FALSE, <<>>)

\* code >= 300 || code < 200
BadStatus(code) == code >= 300 \/ code < 200

\* ----------------------------------------------------------- GetNamespace
\* The variant fills the result in before it looks at the status.
GetNamespaceEager(reply) ==
    IF reply.transport THEN [ns |-> UnsetNamespace, err |-> TransportErr]
    ELSE IF BadStatus(reply.code)
         THEN [ns |-> [Name |-> <<"?">>, Metadata |-> EmptyMap],
               err |-> Errorf(reply.code, reply.body.text)]
    ELSE IF ~reply.body.readable THEN [ns |-> UnsetNamespace, err |-> ReadErr]
    ELSE IF ~reply.body.decodes THEN [ns |-> UnsetNamespace, err |-> DecodeErr]
    ELSE [ns |-> [Name |-> reply.body.value.Name,
                  Metadata |-> metadata(reply.body.value)],
          err |-> Nil]

\* (a *adapter) GetNamespace(namespaceStr), given the remote's reply to
\* GET /dockyard/v2/namespaces/<namespaceStr>: (namespace, err).
GetNamespace(reply) ==
    IF reply.transport THEN [ns |-> UnsetNamespace, err |-> TransportErr]
    ELSE IF BadStatus(reply.code)
         THEN [ns |-> UnsetNamespace, err |-> Errorf(reply.code, reply.body.text)]
    ELSE IF ~reply.body.readable THEN [ns |-> UnsetNamespace, err |-> ReadErr]
    ELSE IF ~reply.body.decodes THEN [ns |-> UnsetNamespace, err |-> DecodeErr]
    ELSE [ns |-> [Name |-> reply.body.value.Name,
                  Metadata |-> metadata(reply.body.value)],
          err |-> Nil]

\* ---------------------------------------------------------- ListNamespaces
\* A pattern built from the query as given, spaces and all.
ListPatternUnstripped(queryName) == <<".", "*">> \o queryName \o <<".", "*">>

\* fmt.Sprintf(".*%s.*", strings.Replace(query.Name, " ", "", -1))
ListPattern(queryName) ==
    <<".", "*">> \o ReplaceSpaces(queryName) \o <<".", "*">>

\* The loop over namespacesData.Namespace: a pattern error returns what has
\* been kept so far, with no error.
RECURSIVE ListLoop(_, _, _)
ListLoop(reg, records, namespaces) ==
    IF records = <<>> THEN [namespaces |-> namespaces, err |-> Nil]
    ELSE LET namespace == [Name |-> Head(records).Name,
                           Metadata |-> metadata(Head(records))]
             m == MatchString(reg, namespace.Name)
         IN  IF m.err THEN [namespaces |-> namespaces, err |-> Nil]
             ELSE ListLoop(reg, Tail(records),
                           IF m.b THEN Append(namespaces, namespace)
                           ELSE namespaces)

\* (a *adapter) ListNamespaces(query), given the remote's reply to
\* GET /dockyard/v2/visible/namespaces: (namespaces, err).
ListNamespaces(queryName, reply) ==
    IF reply.transport THEN [namespaces |-> <<>>, err |-> TransportErr]
    ELSE IF BadStatus(reply.code)
         THEN [namespaces |-> <<>>, err |-> Errorf(reply.code, reply.body.text)]
    ELSE IF ~reply.body.readable THEN [namespaces |-> <<>>, err |-> ReadErr]
    ELSE IF ~reply.body.decodes THEN [namespaces |-> <<>>, err |-> DecodeErr]
    ELSE ListLoop(ListPattern(queryName), reply.body.value, <<>>)

\* ------------------------------------------------------ the remote registry
\* The registry behind the three endpoints. It holds a set of namespaces. A
\* GET for a namespace it holds is answered 200 with that namespace's
\* record. A GET for one it does not hold is answered in the registry's one
\* fixed way: a not-found status, or 200 with the empty record "{}" (the
\* reply adapter_test.go mocks for a new namespace). Any request can also
\* fail: the transport breaks, the status is outside [200,300), or the body
\* cannot be read or decoded.
AbsentReplies == {"notfound", "emptyrecord"}

Faults ==
    {TransportFailure,
     Http(500, TextBody("e1")), Http(500, TextBody("e2")),
     Http(300, TextBody("moved")), Http(199, TextBody("early")),
     Http(200, Body("cut", FALSE, FALSE, <<>>)),
     Http(200, Body("junk", TRUE, FALSE, <<>>))}

TruthfulLookupReply(held, absent, name) ==
    IF name \in held
    THEN Http(200, Body("rec", TRUE, TRUE, OtcNamespace(name, 1)))
    ELSE IF absent = "notfound" THEN Http(404, TextBody("nf"))
    ELSE Http(200, Body("{}", TRUE, TRUE, OtcNamespace(<<>>, 0)))

LookupReplies(held, absent, name) ==
    {TruthfulLookupReply(held, absent, name)} \cup Faults

\* POST /dockyard/v2/namespaces: created (2xx), or a failure.
CreatedReplies == {Http(200, TextBody("")), Http(201, TextBody(""))}
CreateReplies == CreatedReplies \cup (Faults \ {r \in Faults : ~r.transport /\ r.code = 200})

\* GET /dockyard/v2/visible/namespaces: any list of visible namespaces.
ListReplies ==
    {Http(200, Body("list", TRUE, TRUE, [k \in DOMAIN names |-> OtcNamespace(names[k], k)])) :
        names \in SeqsUpTo(ListedNames, MaxListLen)} \cup Faults

\* ------------------------------------------------------------------ state
VARIABLES
    remote,       \* the namespaces the remote registry holds
    absentReply,  \* how the remote answers a GET for a namespace it lacks
    op,           \* the adapter operation in progress or last finished
    pc,           \* "idle", "lookup", "create" or "done"
    query,        \* ListNamespaces' query.Name / GetNamespace's namespaceStr
    reply,        \* the reply ListNamespaces or GetNamespace was given
    resources,    \* PrepareForPush: the repository names of its resources
    idx,          \* PrepareForPush: position of the first loop
    namespaces,   \* PrepareForPush: the keys of the map, one entry per key
    visited,      \* PrepareForPush: entries the second loop has been through
    log,          \* the HTTP requests of the call so far, with their replies
    ret,          \* what the operation returned
    startRemote,  \* the remote's namespaces when the call began
    untouched,    \* nobody else changed the remote since the call returned
    prev          \* the call this one repeats, if it repeats one

vars == <<remote, absentReply, op, pc, query, reply, resources, idx,
          namespaces, visited, log, ret, startRemote, untouched, prev>>

NoReply == TransportFailure
NoRet == [err |-> Nil, ns |-> UnsetNamespace, namespaces |-> <<>>]
NoPrev == [repeat |-> FALSE, ok |-> FALSE, untouched |-> FALSE]

Init ==
    /\ remote \in SUBSET RemoteNames
    /\ absentReply \in AbsentReplies
    /\ op = "none"
    /\ pc = "idle"
    /\ query = <<>>
    /\ reply = NoReply
    /\ resources = <<>>
    /\ idx = 1
    /\ namespaces = <<>>
    /\ visited = {}
    /\ log = <<>>
    /\ ret = NoRet
    /\ startRemote = remote
    /\ untouched = TRUE
    /\ prev = NoPrev

\* ------------------------------------------------- ListNamespaces, called
CallListNamespaces ==
    /\ pc = "idle"
    /\ \E q \in SeqsUpTo(QueryChars, MaxQueryLen), r \in ListReplies :
          /\ query' = q
          /\ reply' = r
          /\ ret' = [NoRet EXCEPT !.namespaces = ListNamespaces(q, r).namespaces,
                                  !.err = ListNamespaces(q, r).err]
    /\ op' = "list"
    /\ pc' = "done"
    /\ startRemote' = remote
    /\ untouched' = TRUE
    /\ UNCHANGED <<remote, absentReply, resources, idx, namespaces, visited,
                   log, prev>>

\* --------------------------------------------------- GetNamespace, called
CallGetNamespace ==
    /\ pc = "idle"
    /\ \E namespaceStr \in RemoteNames \cup {<<>>} :
         \E r \in LookupReplies(remote, absentReply, namespaceStr) :
          /\ query' = namespaceStr
          /\ reply' = r
          /\ ret' = [NoRet EXCEPT !.ns = GetNamespace(r).ns,
                                  !.err = GetNamespace(r).err]
    /\ op' = "get"
    /\ pc' = "done"
    /\ startRemote' = remote
    /\ untouched' = TRUE
    /\ UNCHANGED <<remote, absentReply, resources, idx, namespaces, visited,
                   log, prev>>

\* ------------------------------------------------ PrepareForPush, by steps
\* paths := strings.Split(name, "/"); namespace = paths[0]
Candidate(repositoryName) == FirstSegment(repositoryName)

\* A first loop that goes on after a failed lookup.
LookupAbortsNever(err) == FALSE

\* if err != nil { return err }
LookupAborts(err) == err # Nil

\* A first loop that never skips a namespace it found.
AlreadyThereNever(ns, namespace) == FALSE

\* if ns != nil && ns.Name == namespace { continue }
AlreadyThere(ns, namespace) == ns.Name = namespace

\* namespaces[namespace] = struct{}{}: a map holds a key once.
InRange(m, key) == \E k \in 1..Len(m) : m[k] = key

\* A list in the map's place: a key put twice is held twice.
MapPutAgain(m, key) == Append(m, key)

MapPut(m, key) == IF InRange(m, key) THEN m ELSE Append(m, key)

\* A status test that lets 300 through.
CreateRefusedAbove(code) == code > 300 \/ code < 200

\* The status test of the create loop: code >= 300 || code < 200.
CreateRefused(code) == code >= 300 \/ code < 200

LogEntry(method, namespace, r) == [method |-> method, ns |-> namespace, reply |-> r]

\* PrepareForPush(resources) is entered.
Begin(rs, p) ==
    /\ op' = "prepare"
    /\ resources' = rs
    /\ idx' = 1
    /\ pc' = IF Len(rs) = 0 THEN "create" ELSE "lookup"
    /\ namespaces' = <<>>
    /\ visited' = {}
    /\ log' = <<>>
    /\ ret' = NoRet
    /\ query' = <<>>
    /\ reply' = NoReply
    /\ startRemote' = remote
    /\ untouched' = TRUE
    /\ prev' = p
    /\ UNCHANGED <<remote, absentReply>>

CallPrepareForPush ==
    /\ pc = "idle"
    /\ \E rs \in SeqsUpTo(RepoNames, MaxRes) : Begin(rs, NoPrev)

\* The host calls PrepareForPush again with the resources of the call that
\* has just returned.
RepeatPrepareForPush ==
    /\ pc = "done"
    /\ op = "prepare"
    /\ Begin(resources, [repeat |-> TRUE, ok |-> ret.err = Nil, untouched |-> untouched])

\* One pass of the first loop (lines 163-177): the lookup of one resource's
\* namespace.
LookupStep ==
    /\ pc = "lookup"
    /\ LET namespace == Candidate(resources[idx]) IN
       \E r \in LookupReplies(remote, absentReply, namespace) :
          LET g == GetNamespace(r) IN
          /\ log' = Append(log, LogEntry("GET", namespace, r))
          /\ IF LookupAborts(g.err)
             THEN /\ ret' = [NoRet EXCEPT !.err = g.err]
                  /\ pc' = "done"
                  /\ UNCHANGED <<idx, namespaces>>
             ELSE /\ namespaces' = IF AlreadyThere(g.ns, namespace)
                                   THEN namespaces
                                   ELSE MapPut(namespaces, namespace)
                  /\ idx' = idx + 1
                  /\ pc' = IF idx + 1 > Len(resources) THEN "create" ELSE "lookup"
                  /\ UNCHANGED ret
    /\ UNCHANGED <<remote, absentReply, op, query, reply, resources, visited,
                   startRemote, untouched, prev>>

\* One pass of the second loop (lines 181-213): the create request for one
\* key of the map, the keys coming in any order. A request the transport
\* lost may or may not have reached the registry.
CreateStep ==
    /\ pc = "create"
    /\ \E k \in (1..Len(namespaces)) \ visited, r \in CreateReplies :
          LET namespace == namespaces[k] IN
          /\ log' = Append(log, LogEntry("POST", namespace, r))
          /\ IF r.transport
             THEN /\ ret' = [NoRet EXCEPT !.err = TransportErr]
                  /\ pc' = "done"
                  /\ remote' \in {remote, remote \cup {namespace}}
                  /\ UNCHANGED visited
             ELSE IF CreateRefused(r.code)
             THEN /\ ret' = [NoRet EXCEPT !.err = Errorf(r.code, r.body.text)]
                  /\ pc' = "done"
                  /\ UNCHANGED <<remote, visited>>
             ELSE /\ remote' = remote \cup {namespace}
                  /\ visited' = visited \cup {k}
                  /\ UNCHANGED <<ret, pc>>
    /\ UNCHANGED <<absentReply, op, query, reply, resources, idx, namespaces,
                   startRemote, untouched, prev>>

\* The second loop is through: return nil (line 214).
ReturnNil ==
    /\ pc = "create"
    /\ visited = 1..Len(namespaces)
    /\ pc' = "done"
    /\ ret' = NoRet
    /\ UNCHANGED <<remote, absentReply, op, query, reply, resources, idx,
                   namespaces, visited, log, startRemote, untouched, prev>>

\* ------------------------------------------------------------ environment
\* Another user of the registry creates or deletes a namespace while the
\* adapter is between calls.
RemoteChange ==
    /\ pc = "done"
    /\ op = "prepare"
    /\ \E n \in RemoteNames :
          remote' = IF n \in remote THEN remote \ {n} ELSE remote \cup {n}
    /\ untouched' = FALSE
    /\ UNCHANGED <<absentReply, op, pc, query, reply, resources, idx,
                   namespaces, visited, log, ret, startRemote, prev>>

\* The host is done with the result.
Forget ==
    /\ pc = "done"
    /\ op' = "none"
    /\ pc' = "idle"
    /\ query' = <<>>
    /\ reply' = NoReply
    /\ resources' = <<>>
    /\ idx' = 1
    /\ namespaces' = <<>>
    /\ visited' = {}
    /\ log' = <<>>
    /\ ret' = NoRet
    /\ startRemote' = remote
    /\ untouched' = TRUE
    /\ prev' = NoPrev
    /\ UNCHANGED <<remote, absentReply>>

Next ==
    \/ CallListNamespaces
    \/ CallGetNamespace
    \/ CallPrepareForPush
    \/ RepeatPrepareForPush
    \/ LookupStep
    \/ CreateStep
    \/ ReturnNil
    \/ RemoteChange
    \/ Forget

Spec == Init /\ [][Next]_vars

\* ------------------------------------------------------------- properties
Preparing == op = "prepare"
Returned == pc = "done"
Gets == {k \in DOMAIN log : log[k].method = "GET"}
Posts == {k \in DOMAIN log : log[k].method = "POST"}

\* A reply that carries a status in [200,300).
Is2xx(r) == ~r.transport /\ r.code >= 200 /\ r.code < 300
\* A reply a lookup or a listing cannot use: no 2xx status, or no usable body.
Unusable(r) == ~Is2xx(r) \/ ~r.body.readable \/ ~r.body.decodes

\* The first non-empty segment of a repository name split on "/", as a set:
\* empty when the name has no non-empty segment.
RECURSIVE FirstNonEmptySegment(_)
FirstNonEmptySegment(s) ==
    IF s = <<>> THEN {}
    ELSE IF Head(s) = "/" THEN FirstNonEmptySegment(Tail(s))
    ELSE {FirstSegment(s)}

Referenced == UNION {FirstNonEmptySegment(resources[k]) : k \in DOMAIN resources}

\* C1: whenever PrepareForPush returns success, every namespace referenced by
\* a repository of its resources exists in the remote registry at that moment.
C1_SuccessMeansAllExist ==
    (Preparing /\ Returned /\ ret.err = Nil /\ untouched) => Referenced \subseteq remote

\* C2: a lookup of a (non-empty) candidate answered with a not-found status
\* does not make PrepareForPush return an error: the call goes on (to a create
\* request for the candidate).
C2_NotFoundDoesNotAbort ==
    \A k \in Gets :
        (log[k].ns # <<>> /\ ~log[k].reply.transport /\ log[k].reply.code = 404)
            => ~(Returned /\ k = Len(log) /\ ret.err # Nil)

\* C3: PrepareForPush is idempotent: a call that repeats, with the same
\* resources, a call that returned success, the remote registry untouched in
\* between and answering every lookup of the repeat, issues no create request,
\* finds by every lookup a namespace named as the candidate, and returns no
\* error.
C3_Idempotent ==
    (Preparing /\ prev.repeat /\ prev.ok /\ prev.untouched
       /\ \A k \in Gets : ~Unusable(log[k].reply))
    => /\ Posts = {}
       /\ \A k \in Gets : log[k].reply.body.value.Name = log[k].ns
       /\ Returned => ret.err = Nil

C3_Witness ==
    /\ Preparing /\ Returned /\ prev.repeat /\ prev.ok /\ prev.untouched
    /\ ret.err = Nil
    /\ Len(log) >= 2
    /\ \E k \in Gets : log[k].ns = <<"a">>
    /\ \E k \in Gets : log[k].ns = <<"b">>

\* C4: within one PrepareForPush call at most one create request is issued per
\* namespace name, however many resources share the namespace.
C4_OneCreatePerNamespace ==
    Preparing => \A j, k \in Posts : log[j].ns = log[k].ns => j = k

C4_Witness ==
    /\ Preparing /\ Returned /\ ret.err = Nil
    /\ \E i, j \in DOMAIN resources :
          /\ i # j
          /\ Candidate(resources[i]) = Candidate(resources[j])
          /\ \E k \in Posts : log[k].ns = Candidate(resources[i])
    /\ Cardinality(Posts) = 2

\* C5: a create request answered with a status outside [200,300) ends the
\* call: it is the call's last request, the call returns an error carrying
\* that status and that body, and the namespaces created earlier in the call
\* are still there when it returns.
C5_CreateFailureAborts ==
    \A k \in Posts :
        (~log[k].reply.transport /\ (log[k].reply.code < 200 \/ log[k].reply.code >= 300))
        => /\ k = Len(log)
           /\ Returned
           /\ ret.err.kind = "status"
           /\ ret.err.code = log[k].reply.code
           /\ ret.err.body = log[k].reply.body.text
           /\ untouched => \A j \in Posts : j < k => log[j].ns \in remote

C5_Witness ==
    /\ Preparing /\ Returned /\ untouched
    /\ ret.err = Errorf(500, "e2")
    /\ Cardinality(Posts) = 2
    /\ \E j \in Posts : log[j].ns \in remote \ startRemote

\* ---- ListNamespaces
Listed == op = "list" /\ Is2xx(reply) /\ reply.body.readable /\ reply.body.decodes

\* s without the characters of drop.
Without(s, drop) == SelectSeq(s, LAMBDA c : c \notin drop)

\* name holds lit as a contiguous run of equal characters.
ContainsLiteral(name, lit) ==
    \E k \in 0..(Len(name) - Len(lit)) :
        \A j \in 1..Len(lit) : name[k + j] = lit[j]

\* name holds a run of Len(pat) characters that agree with pat wherever pat is
\* not "."; a "." stands for any one character but a newline.
ContainsWild(name, pat) ==
    \E k \in 0..(Len(name) - Len(pat)) :
        \A j \in 1..Len(pat) :
            IF pat[j] = "." THEN name[k + j] # "\n" ELSE name[k + j] = pat[j]

\* The members of a set of positions, in increasing order.
RECURSIVE Ascending(_)
Ascending(S) ==
    IF S = {} THEN <<>>
    ELSE LET m == CHOOSE x \in S : \A y \in S : x <= y
         IN  <<m>> \o Ascending(S \ {m})

\* The positions of the listed records whose name satisfies Keep, in order.
KeptFrom(records, Keep(_)) ==
    Ascending({k \in DOMAIN records : Keep(records[k].Name)})

\* The result is exactly the listed records at positions `kept`, in order:
\* each with its record's name and the metadata of that record.
ResultIs(kept) ==
    /\ ret.err = Nil
    /\ Len(ret.namespaces) = Len(kept)
    /\ \A k \in DOMAIN kept :
          /\ ret.namespaces[k].Name = reply.body.value[kept[k]].Name
          /\ ret.namespaces[k].Metadata["id"] = reply.body.value[kept[k]].ID

C10_MalformedPatternEmpty ==
    (Listed /\ \E k \in DOMAIN query : query[k] = "(")
    => ret.err = Nil /\ ret.namespaces = <<>>

C10_Witness ==
    /\ Listed
    /\ query = <<"a", "(">>
    /\ Len(reply.body.value) = 2
    /\ reply.body.value[1].Name = <<"a">>
    /\ ret.err = Nil
    /\ ret.namespaces = <<>>

\* ---- GetNamespace
Got == op = "get" /\ Returned

\* C7 as stated: GetNamespace for a name the remote registry does not hold
\* returns an error, and any error comes with the unset Namespace.
C7_AbsentIsFailure ==
    Got => /\ query \notin startRemote => ret.err # Nil
           /\ ret.err # Nil => ret.ns.Name = <<>> /\ DOMAIN ret.ns.Metadata = {}

\* C7 as amended: GetNamespace returns an error exactly when the request
\* fails, the status is outside [200,300) or the body cannot be read or
\* decoded, so for a name the registry does not hold it returns an error when
\* the registry answers not-found, and success with an empty-named Namespace
\* when the registry answers 2xx with an empty record; whenever it returns an
\* error, the Namespace alongside is unset (empty name, empty metadata), and
\* on success the Namespace has the name of the record in the reply.
C7_ErrorIffUnusableReply ==
    Got => /\ ret.err # Nil <=> Unusable(reply)
           /\ ret.err # Nil => ret.ns.Name = <<>> /\ DOMAIN ret.ns.Metadata = {}
           /\ ret.err = Nil => /\ ret.ns.Name = reply.body.value.Name
                               /\ DOMAIN ret.ns.Metadata = MetadataKeys
           /\ (query \notin startRemote /\ reply.code = 404)
                 => ret.err = Errorf(404, reply.body.text)
           /\ (query \notin startRemote /\ Is2xx(reply) /\ ~Unusable(reply))
                 => ret.err = Nil /\ ret.ns.Name = <<>>

C7_Witness ==
    /\ Got
    /\ query = <<"a">>
    /\ query \notin startRemote
    /\ ret.err = Errorf(404, "nf")
    /\ ret.ns.Name = <<>>

\* ---- candidates and ordering
\* C8: the candidate of a resource is the first non-empty segment of its
\* repository name: the empty string is never looked up or created, and the
\* candidates are deduplicated before use (no namespace is looked up twice in
\* one call).
C8_NoEmptyCandidateDeduplicated ==
    Preparing =>
        /\ \A k \in DOMAIN log : log[k].ns # <<>>
        /\ \A j, k \in Gets : log[j].ns = log[k].ns => j = k

\* C9: every lookup request of a PrepareForPush call comes before every create
\* request of the call; a lookup that fails ends the call with an error, no
\* create request issued and the remote registry's namespaces as they were.
C9_LookupsBeforeCreates ==
    Preparing =>
        /\ \A j \in Posts, k \in Gets : k < j
        /\ \A k \in Gets :
              Unusable(log[k].reply)
              => /\ Returned
                 /\ ret.err # Nil
                 /\ ret.err = GetNamespace(log[k].reply).err
                 /\ k = Len(log)
                 /\ Posts = {}
                 /\ untouched => remote = startRemote

C9_Witness ==
    /\ Preparing /\ Returned /\ untouched
    /\ Len(log) = 3
    /\ Unusable(log[3].reply)
    /\ log[1].ns # log[2].ns
    /\ Len(namespaces) = 2
    /\ Posts = {}
    /\ remote = startRemote

====
